---- MODULE Spec2Model ----
(***************************************************************************)
(* A model of KazooGame (src/main.rs): an ECS world holding a Player and   *)
(* ten LeftMover entities, and the per-frame tick that handles the key,    *)
(* runs the LeftWalker system, maintains the world and renders it.         *)
(***************************************************************************)
EXTENDS Integers, Sequences, FiniteSets, TLC

VARIABLES ecs, key, pc, ticks, start, screen, calls, joined, borrows, held, phases

vars == <<ecs, key, pc, ticks, start, screen, calls, joined, borrows, held, phases>>

(* ------------------------------ bounds -------------------------------- *)

\* Frames explored from the world built by main: enough for the Player to
\* reach the top row (25 frames) and the bottom row (24) and be pushed on.
MaxTicks == 26
\* Frames explored from each sampled world.
MaxEcsTicks == 1
\* Entities of a sampled world.
MaxEntities == 2
\* Frames explored while entities are being queued for destruction.
MaxDestroyTicks == 2
\* Largest entity id that is queued for destruction.
MaxDestroyId == 1
\* Frames explored with the horizontal keys only: one full turn of the
\* LeftMovers around the screen (80 frames) and one frame more.
MaxLongTicks == 81

(* ------------------------- program constants -------------------------- *)

ScreenMaxX == 79
ScreenMaxY == 49
PlayerStartX == 40
PlayerStartY == 25
NumLeftMovers == 10
LeftMoverSpacing == 7
LeftMoverY == 20
I32Max == 2147483647

(* ------------------------------ integers ------------------------------ *)

I32Min == (-I32Max) - 1

\* a + b as an i32, two's complement (the build without overflow checks).
AddI32(a, b) ==
    IF a > 0 /\ b > 0 /\ a > I32Max - b THEN (a + I32Min) + (b + I32Min)
    ELSE IF a < 0 /\ b < 0 /\ a < I32Min - b THEN (a - I32Min) + (b - I32Min)
    ELSE a + b

min(a, b) == IF a <= b THEN a ELSE b

max(a, b) == IF a >= b THEN a ELSE b

(* ------------------------------ components ---------------------------- *)

Stores == {"Position", "Renderable", "LeftMover", "Player"}

PlayerGlyph == [glyph |-> "@", fg |-> "YELLOW", bg |-> "BLACK"]

LeftMoverGlyph == [glyph |-> "smiley", fg |-> "RED", bg |-> "BLACK"]

\* World::new() with the four component types registered.
NewWorld ==
    [entities |-> {}, position |-> <<>>, renderable |-> <<>>,
     leftMover |-> {}, player |-> {}, queue |-> {}]

\* f with e mapped to v (a store's insert).
Insert(f, e, v) == [d \in (DOMAIN f) \cup {e} |-> IF d = e THEN v ELSE f[d]]

\* create_entity().with(Position).with(Renderable).with(tag).build():
\* the next free id gets exactly the components given.
CreateEntity(w, pos, rend, isLeft, isPlayer) ==
    LET e == Cardinality(w.entities)
    IN  [entities |-> w.entities \cup {e},
         position |-> Insert(w.position, e, pos),
         renderable |-> Insert(w.renderable, e, rend),
         leftMover |-> IF isLeft THEN w.leftMover \cup {e} ELSE w.leftMover,
         player |-> IF isPlayer THEN w.player \cup {e} ELSE w.player,
         queue |-> w.queue]

RECURSIVE AddLeftMoversInclusive(_, _)
\* The loop over 0..=10.
AddLeftMoversInclusive(w, i) ==
    IF i > NumLeftMovers THEN w
    ELSE AddLeftMoversInclusive(
            CreateEntity(w, [x |-> i * LeftMoverSpacing, y |-> LeftMoverY],
                         LeftMoverGlyph, TRUE, FALSE),
            i + 1)

RECURSIVE AddLeftMovers(_, _)
\* for i in 0..10 { create_entity() ... Position { x: i * 7, y: 20 } ... }
AddLeftMovers(w, i) ==
    IF i >= NumLeftMovers THEN w
    ELSE AddLeftMovers(
            CreateEntity(w, [x |-> i * LeftMoverSpacing, y |-> LeftMoverY],
                         LeftMoverGlyph, TRUE, FALSE),
            i + 1)

\* The world main hands to the main loop.
MainWorld ==
    AddLeftMovers(
        CreateEntity(NewWorld, [x |-> PlayerStartX, y |-> PlayerStartY],
                     PlayerGlyph, FALSE, TRUE),
        0)

(* -------------------------------- joins ------------------------------- *)

RECURSIVE Ascending(_)
\* The ids of S in ascending order.
Ascending(S) ==
    IF S = {} THEN <<>>
    ELSE LET m == CHOOSE a \in S : \A b \in S : a <= b
         IN  <<m>> \o Ascending(S \ {m})

InStore(B, e) == e \in B

\* (&a, &b).join(): the ids of a that b holds too, in ascending id order.
Join(A, B) == SelectSeq(Ascending(A), LAMBDA e : InStore(B, e))

Range(s) == {s[i] : i \in 1..Len(s)}

(* ------------------------------- borrows ------------------------------ *)

Free == [s \in Stores |-> [readers |-> 0, writer |-> FALSE]]

Acq(s, m) == [op |-> "acquire", store |-> s, mode |-> m]

Rel(s, m) == [op |-> "release", store |-> s, mode |-> m]

\* Whether the table b grants the event ev (a release is always granted).
Granted(b, ev) ==
    \/ ev.op = "release"
    \/ ev.mode = "read" /\ ~b[ev.store].writer
    \/ ev.mode = "write" /\ ~b[ev.store].writer /\ b[ev.store].readers = 0

\* The table after a granted event.
Apply(b, ev) ==
    LET c == b[ev.store]
    IN  [b EXCEPT ![ev.store] =
            IF ev.op = "acquire"
            THEN IF ev.mode = "write" THEN [c EXCEPT !.writer = TRUE]
                 ELSE [c EXCEPT !.readers = c.readers + 1]
            ELSE IF ev.mode = "write" THEN [c EXCEPT !.writer = FALSE]
                 ELSE [c EXCEPT !.readers = max(0, c.readers - 1)]]

RECURSIVE Tables(_, _)
\* The tables after each event of evs from b, up to and leaving out the
\* first event that is not granted.
Tables(b, evs) ==
    IF evs = <<>> \/ ~Granted(b, Head(evs)) THEN <<>>
    ELSE LET n == Apply(b, Head(evs)) IN <<n>> \o Tables(n, Tail(evs))

\* All of evs were granted.
AllGranted(b, evs) == Len(Tables(b, evs)) = Len(evs)

Last(b, ts) == IF ts = <<>> THEN b ELSE ts[Len(ts)]

(* --------------------------- try_move_player -------------------------- *)

\* try_move_player with its storages kept alive after it returns.
TryMovePlayerBorrowsKept ==
    <<Acq("Position", "write"), Acq("Player", "write")>>

\* write_storage::<Position>(), write_storage::<Player>(), dropped at the
\* end of the function in reverse order of declaration.
TryMovePlayerBorrows ==
    <<Acq("Position", "write"), Acq("Player", "write"),
      Rel("Player", "write"), Rel("Position", "write")>>

\* The loop over every Position, the Player store left out of the join.
TryMovePlayerJoinPositions(w) == Ascending(DOMAIN w.position)

\* The entities (&mut players, &mut positions).join() visits.
TryMovePlayerJoin(w) == Join(w.player, DOMAIN w.position)

\* The move with the wrap of LeftWalker at the left edge instead of the clamp.
MovedPlayerWrapping(p, delta_x, delta_y) ==
    [x |-> IF AddI32(p.x, delta_x) < 0 THEN ScreenMaxX
           ELSE min(ScreenMaxX, AddI32(p.x, delta_x)),
     y |-> min(ScreenMaxY, max(0, AddI32(p.y, delta_y)))]

\* The move with no clamp at all.
MovedPlayerUnclamped(p, delta_x, delta_y) ==
    [x |-> AddI32(p.x, delta_x), y |-> AddI32(p.y, delta_y)]

\* pos.x = min(79, max(0, pos.x + delta_x)); same for y with 49.
MovedPlayer(p, delta_x, delta_y) ==
    [x |-> min(ScreenMaxX, max(0, AddI32(p.x, delta_x))),
     y |-> min(ScreenMaxY, max(0, AddI32(p.y, delta_y)))]

RECURSIVE MoveLoop(_, _, _, _)
MoveLoop(pos, rows, delta_x, delta_y) ==
    IF rows = <<>> THEN pos
    ELSE MoveLoop([pos EXCEPT ![Head(rows)] = MovedPlayer(@, delta_x, delta_y)],
                  Tail(rows), delta_x, delta_y)

\* try_move_player(delta_x, delta_y, ecs): the world afterwards.
TryMovePlayer(delta_x, delta_y, w) ==
    [w EXCEPT !.position =
        MoveLoop(w.position, TryMovePlayerJoin(w), delta_x, delta_y)]

(* ----------------------------- player_input --------------------------- *)

Keys == {"None", "Left", "Right", "Up", "Down", "Other"}

\* player_input with the y axis pointing up.
PlayerInputCallsYUp(k) ==
    CASE k = "Left" -> << <<-1, 0>> >>
      [] k = "Right" -> << <<1, 0>> >>
      [] k = "Up" -> << <<0, 1>> >>
      [] k = "Down" -> << <<0, -1>> >>
      [] OTHER -> <<>>

\* The try_move_player calls player_input makes for ctx.key.
PlayerInputCalls(k) ==
    CASE k = "Left" -> << <<-1, 0>> >>
      [] k = "Right" -> << <<1, 0>> >>
      [] k = "Up" -> << <<0, -1>> >>
      [] k = "Down" -> << <<0, 1>> >>
      [] OTHER -> <<>>

(* ------------------------------ LeftWalker ---------------------------- *)

\* SystemData = (ReadStorage<LeftMover>, WriteStorage<Position>), fetched
\* by run_now and dropped when run returns.
LeftWalkerBorrows ==
    <<Acq("LeftMover", "read"), Acq("Position", "write"),
      Rel("Position", "write"), Rel("LeftMover", "read")>>

\* The loop over every Position, the LeftMover store left out of the join.
LeftWalkerJoinPositions(w) == Ascending(DOMAIN w.position)

\* The entities (&lefty, &mut pos).join() visits.
LeftWalkerJoin(w) == Join(w.leftMover, DOMAIN w.position)

\* The walk with no wrap at the left edge.
WalkedLeftNoWrap(p) == [p EXCEPT !.x = AddI32(p.x, -1)]

\* The walk with the clamp of try_move_player instead of the wrap.
WalkedLeftClamping(p) == [p EXCEPT !.x = max(0, AddI32(p.x, -1))]

\* pos.x -= 1; if pos.x < 0 { pos.x = 79; }
WalkedLeft(p) ==
    LET x1 == AddI32(p.x, -1)
    IN  [p EXCEPT !.x = IF x1 < 0 THEN ScreenMaxX ELSE x1]

RECURSIVE WalkLoop(_, _)
WalkLoop(pos, rows) ==
    IF rows = <<>> THEN pos
    ELSE WalkLoop([pos EXCEPT ![Head(rows)] = WalkedLeft(@)], Tail(rows))

\* LeftWalker::run that also deletes the entities it wraps around: they are
\* queued until maintain().
LeftWalkerRunDespawning(w) ==
    [w EXCEPT !.position = WalkLoop(w.position, LeftWalkerJoin(w)),
              !.queue = @ \cup {e \in Range(LeftWalkerJoin(w)) : w.position[e].x = 0}]

\* LeftWalker::run over the world: the world afterwards.
LeftWalkerRun(w) ==
    [w EXCEPT !.position = WalkLoop(w.position, LeftWalkerJoin(w))]

(* ------------------------------- maintain ----------------------------- *)

Without(f, D) == [d \in (DOMAIN f) \ D |-> f[d]]

\* World::maintain(): every queued entity leaves the registry and every
\* store, and the queue is cleared.
Maintained(w) ==
    [entities |-> w.entities \ w.queue,
     position |-> Without(w.position, w.queue),
     renderable |-> Without(w.renderable, w.queue),
     leftMover |-> w.leftMover \ w.queue,
     player |-> w.player \ w.queue,
     queue |-> {}]

(* -------------------------------- render ------------------------------ *)

\* read_storage::<Position>(), read_storage::<Renderable>(), dropped when
\* tick returns.
RenderBorrows ==
    <<Acq("Position", "read"), Acq("Renderable", "read"),
      Rel("Renderable", "read"), Rel("Position", "read")>>

\* The entities (&positions, &renderables).join() visits.
RenderJoin(w) == Join(DOMAIN w.position, DOMAIN w.renderable)

\* ctx.set(pos.x, pos.y, render.fg, render.bg, render.glyph)
SetCall(w, e) ==
    [x |-> w.position[e].x, y |-> w.position[e].y,
     fg |-> w.renderable[e].fg, bg |-> w.renderable[e].bg,
     glyph |-> w.renderable[e].glyph]

Rendered(w) ==
    LET rows == RenderJoin(w) IN [i \in 1..Len(rows) |-> SetCall(w, rows[i])]

(* ------------------------------- the tick ----------------------------- *)

\* tick with the render loop placed before run_systems.
AfterRenderFirst(p) ==
    CASE p = "cls" -> "input"
      [] p = "input" -> "render"
      [] p = "render" -> "system"
      [] p = "system" -> "maintain"
      [] p = "maintain" -> "cls"

\* run_systems with maintain() placed before the system.
AfterMaintainFirst(p) ==
    CASE p = "cls" -> "input"
      [] p = "input" -> "maintain"
      [] p = "maintain" -> "system"
      [] p = "system" -> "render"
      [] p = "render" -> "cls"

\* run_systems without its maintain() call.
AfterNoMaintain(p) ==
    CASE p = "cls" -> "input"
      [] p = "input" -> "system"
      [] p = "system" -> "render"
      [] p = "maintain" -> "render"
      [] p = "render" -> "cls"

\* The order of the statements of State::tick and State::run_systems.
After(p) ==
    CASE p = "cls" -> "input"
      [] p = "input" -> "system"
      [] p = "system" -> "maintain"
      [] p = "maintain" -> "render"
      [] p = "render" -> "cls"

\* What a join saw: the entity and its Position when visited.
Rows(w, ids) == [i \in 1..Len(ids) |-> [e |-> ids[i], pos |-> w.position[ids[i]]]]

\* A phase that takes the borrows evs: it panics at the first one refused.
Borrowing(evs) ==
    /\ held' = Tables(borrows, evs)
    /\ borrows' = Last(borrows, held')

\* The frame starts: rltk has put the frame's key in ctx.key; ctx.cls().
Cls(limit) ==
    /\ pc = "cls"
    /\ ticks < limit
    /\ \E k \in Keys : key' = k
    /\ ticks' = ticks + 1
    /\ start' = ecs
    /\ screen' = <<>>
    /\ calls' = <<>>
    /\ joined' = <<>>
    /\ phases' = <<"cls">>
    /\ pc' = After("cls")
    /\ UNCHANGED <<ecs, borrows, held>>

\* player_input(self, ctx)
PlayerInput ==
    /\ pc = "input"
    /\ calls' = PlayerInputCalls(key)
    /\ phases' = Append(phases, "input")
    /\ IF calls' = <<>>
       THEN /\ UNCHANGED <<ecs, borrows>>
            /\ held' = <<>>
            /\ joined' = <<>>
            /\ pc' = After("input")
       ELSE /\ Borrowing(TryMovePlayerBorrows)
            /\ IF AllGranted(borrows, TryMovePlayerBorrows)
               THEN /\ ecs' = TryMovePlayer(calls'[1][1], calls'[1][2], ecs)
                    /\ joined' = Rows(ecs, TryMovePlayerJoin(ecs))
                    /\ pc' = After("input")
               ELSE /\ UNCHANGED <<ecs, joined>>
                    /\ pc' = "panic"
    /\ UNCHANGED <<key, ticks, start, screen>>

\* run_systems, first half: lw.run_now(&self.ecs)
RunLeftWalker ==
    /\ pc = "system"
    /\ phases' = Append(phases, "system")
    /\ Borrowing(LeftWalkerBorrows)
    /\ IF AllGranted(borrows, LeftWalkerBorrows)
       THEN /\ ecs' = LeftWalkerRun(ecs)
            /\ joined' = Rows(ecs, LeftWalkerJoin(ecs))
            /\ pc' = After("system")
       ELSE /\ UNCHANGED <<ecs, joined>>
            /\ pc' = "panic"
    /\ UNCHANGED <<key, ticks, start, screen, calls>>

\* run_systems, second half: self.ecs.maintain()
Maintain ==
    /\ pc = "maintain"
    /\ phases' = Append(phases, "maintain")
    /\ ecs' = Maintained(ecs)
    /\ joined' = <<>>
    /\ held' = <<>>
    /\ pc' = After("maintain")
    /\ UNCHANGED <<key, ticks, start, screen, calls, borrows>>

\* The render loop of tick.
Render ==
    /\ pc = "render"
    /\ phases' = Append(phases, "render")
    /\ Borrowing(RenderBorrows)
    /\ IF AllGranted(borrows, RenderBorrows)
       THEN /\ screen' = screen \o Rendered(ecs)
            /\ joined' = Rows(ecs, RenderJoin(ecs))
            /\ pc' = After("render")
       ELSE /\ UNCHANGED <<screen, joined>>
            /\ pc' = "panic"
    /\ UNCHANGED <<ecs, key, ticks, start, calls>>

Init ==
    /\ ecs = MainWorld
    /\ key = "None"
    /\ pc = "cls"
    /\ ticks = 0
    /\ start = ecs
    /\ screen = <<>>
    /\ calls = <<>>
    /\ joined = <<>>
    /\ borrows = Free
    /\ held = <<>>
    /\ phases = <<>>

Next ==
    \/ Cls(MaxTicks)
    \/ PlayerInput
    \/ RunLeftWalker
    \/ Maintain
    \/ Render

Spec == Init /\ [][Next]_vars

(* --------------------------- sampled worlds --------------------------- *)

\* Positions of a sampled world: the two opposite corners of the screen,
\* from which a unit move either stays on the screen or leaves it.
PosSamples ==
    {[x |-> 0, y |-> 0], [x |-> ScreenMaxX, y |-> ScreenMaxY]}

EcsIds == 0..(MaxEntities - 1)

\* Every world of MaxEntities live entities, each holding any subset of
\* the four components, as create_entity().with(..).build() can make it.
EcsWorlds ==
    {[entities |-> EcsIds, position |-> p, renderable |-> [e \in R |-> PlayerGlyph],
      leftMover |-> L, player |-> P, queue |-> {}] :
        p \in UNION {[D -> PosSamples] : D \in SUBSET EcsIds},
        R \in SUBSET EcsIds, L \in SUBSET EcsIds, P \in SUBSET EcsIds}

InitEcs ==
    /\ ecs \in EcsWorlds
    /\ key = "None"
    /\ pc = "cls"
    /\ ticks = 0
    /\ start = ecs
    /\ screen = <<>>
    /\ calls = <<>>
    /\ joined = <<>>
    /\ borrows = Free
    /\ held = <<>>
    /\ phases = <<>>

NextEcs ==
    \/ Cls(MaxEcsTicks)
    \/ PlayerInput
    \/ RunLeftWalker
    \/ Maintain
    \/ Render

SpecEcs == InitEcs /\ [][NextEcs]_vars

(* ------------------------------- claims ------------------------------- *)

Clamp(v, lo, hi) == IF v < lo THEN lo ELSE IF v > hi THEN hi ELSE v

\* The step is a player_input that calls try_move_player.
MoveStep == pc = "input" /\ calls' # <<>>

\* C1: a try_move_player(delta_x, delta_y) call sets, for every entity with
\* both a Player and a Position, x to clamp(x + delta_x, 0, 79) and y to
\* clamp(y + delta_y, 0, 49): at x = 0 a delta of -1 leaves x = 0, at x = 79
\* a delta of +1 leaves x = 79, at y = 49 a delta of +1 leaves y = 49.
C1_PlayerMoveClamps ==
    [][MoveStep =>
        LET dx == calls'[1][1]
            dy == calls'[1][2]
        IN  \A e \in ecs.player \cap DOMAIN ecs.position :
                LET p == ecs.position[e]
                    q == ecs'.position[e]
                IN  /\ q.x = Clamp(p.x + dx, 0, 79)
                    /\ q.y = Clamp(p.y + dy, 0, 49)
                    /\ (p.x = 0 /\ dx = -1) => q.x = 0
                    /\ (p.x = 79 /\ dx = 1) => q.x = 79
                    /\ (p.y = 49 /\ dy = 1) => q.y = 49]_vars

\* The phase just completed, if any.
Done(ph) == phases # <<>> /\ phases[Len(phases)] = ph /\ pc # "panic"

\* A Player was on the edge it was pushed against, and is still on it.
PushedAgainst(fromX, fromY, dx, dy) ==
    /\ Done("input")
    /\ calls = << <<dx, dy>> >>
    /\ \E i \in 1..Len(joined) :
            /\ joined[i].pos = [x |-> fromX, y |-> fromY]
            /\ ecs.position[joined[i].e] = [x |-> fromX, y |-> fromY]

C1_Witness == PushedAgainst(0, 0, -1, 0)

\* C2: one LeftWalker run decrements by 1 the x of every entity with both a
\* LeftMover and a Position and, if the result is negative, sets x to 79:
\* from x = 0 the entity is at x = 79, from x > 0 at x - 1.
C2_LeftWalkerWraps ==
    [][pc = "system" =>
        \A e \in ecs.leftMover \cap DOMAIN ecs.position :
            LET p == ecs.position[e]
                q == ecs'.position[e]
            IN  /\ q.x = IF p.x - 1 < 0 THEN 79 ELSE p.x - 1
                /\ p.x = 0 => q.x = 79
                /\ p.x > 0 => q.x = p.x - 1]_vars

\* A LeftMover at x = 0 was walked to x = 79.
C2_Witness ==
    /\ Done("system")
    /\ \E i \in 1..Len(joined) :
            joined[i].pos.x = 0 /\ ecs.position[joined[i].e].x = 79

TickOrder == <<"cls", "input", "system", "maintain", "render">>

IsPrefix(a, b) == Len(a) <= Len(b) /\ \A i \in 1..Len(a) : a[i] = b[i]

Count(seq, v) == Cardinality({i \in 1..Len(seq) : seq[i] = v})

\* The world after the player move for key k and then the LeftWalker run
\* and maintain().
MovedThenWalked(w, k) ==
    LET c == PlayerInputCalls(k)
        w1 == IF c = <<>> THEN w ELSE TryMovePlayer(c[1][1], c[1][2], w)
    IN  Maintained(LeftWalkerRun(w1))

\* C3: within every tick the phases run in the order player input,
\* LeftWalker, maintain(), render, each after the one before has completed;
\* the renderer draws the positions as they are after both the player move
\* and the LeftWalker move of that tick; the next tick starts only after
\* the render of this one.
C3_PhaseOrder ==
    /\ IsPrefix(phases, TickOrder)
    /\ pc = "cls" => phases \in {<<>>, TickOrder}
    /\ pc \in {"input", "system", "maintain", "render"} =>
            /\ phases # <<>>
            /\ phases # TickOrder
            /\ pc = TickOrder[Len(phases) + 1]
    /\ Done("render") =>
            /\ ecs = MovedThenWalked(start, key)
            /\ screen = Rendered(MovedThenWalked(start, key))

\* A tick has rendered a world that both the player move and the
\* LeftWalker run changed.
C3_Witness ==
    /\ Done("render")
    /\ phases = TickOrder
    /\ calls # <<>>
    /\ \E e \in ecs.player : ecs.position[e] # start.position[e]
    /\ \E e \in ecs.leftMover : ecs.position[e] # start.position[e]
    /\ screen # <<>>

\* C4: in every tick run_systems runs the LeftWalker system exactly once and
\* then maintain() exactly once: maintain() never precedes the system in a
\* tick and neither is run twice.
C4_SystemThenMaintainOnce ==
    /\ Count(phases, "system") <= 1
    /\ Count(phases, "maintain") <= 1
    /\ Count(phases, "maintain") <= Count(phases, "system")
    /\ (pc = "render" \/ Done("render")) =>
            /\ Count(phases, "system") = 1
            /\ Count(phases, "maintain") = 1
    /\ \A i, j \in 1..Len(phases) :
            (phases[i] = "system" /\ phases[j] = "maintain") => i < j

\* run_systems has returned in a second tick: the system and maintain()
\* have each run once in it.
C4_Witness ==
    /\ ticks = 2
    /\ pc = "render"
    /\ phases = <<"cls", "input", "system", "maintain">>

\* What the first frame draws after a Right key.
FirstFrameRight ==
    {[x |-> 41, y |-> 25, fg |-> "YELLOW", bg |-> "BLACK", glyph |-> "@"]}
    \cup {[x |-> (IF i = 0 THEN 79 ELSE 7 * i - 1), y |-> 20,
           fg |-> "RED", bg |-> "BLACK", glyph |-> "smiley"] : i \in 0..9}

\* C5: from the world built by main, one tick with the Right key leaves the
\* Player at (41,25) and the ten LeftMovers at y = 20 with x one less (79
\* for the one that started at 0), and that tick's render join yields
\* exactly 11 pairs, with these coordinates.
C5_FirstTickRight ==
    (ticks = 1 /\ key = "Right" /\ Done("render")) =>
        /\ ecs.player = {0}
        /\ ecs.position[0] = [x |-> 41, y |-> 25]
        /\ ecs.leftMover = 1..10
        /\ \A i \in 0..9 :
                ecs.position[i + 1] =
                    [x |-> (IF i = 0 THEN 79 ELSE 7 * i - 1), y |-> 20]
        /\ Len(joined) = 11
        /\ Len(screen) = 11
        /\ Range(screen) = FirstFrameRight
        /\ \A i \in 1..11 :
                /\ screen[i].x = ecs.position[joined[i].e].x
                /\ screen[i].y = ecs.position[joined[i].e].y

C5_Witness ==
    /\ ticks = 1
    /\ key = "Right"
    /\ Done("render")
    /\ Len(screen) = 11

Exclusive(t) == \A s \in Stores : t[s].writer => t[s].readers = 0

\* The completed phase held, all at once, exactly the stores W for writing
\* and the stores R for reading, and then released them all.
Took(W, R) ==
    /\ Len(held) = 4
    /\ \A s \in Stores :
            /\ held[2][s].writer = (s \in W)
            /\ held[2][s].readers = (IF s \in R THEN 1 ELSE 0)
    /\ held[4] = Free

\* C6: no store is ever borrowed for writing while another borrow of it is
\* held: the write borrows of try_move_player are released before
\* LeftWalker borrows, LeftWalker's before maintain(), the renderer's read
\* borrows are taken after that and released before the next tick, and the
\* borrow violation is never reached.
C6_BorrowsNeverConflict ==
    /\ pc # "panic"
    /\ borrows = Free
    /\ \A i \in 1..Len(held) : Exclusive(held[i])
    /\ (Done("input") /\ calls # <<>>) => Took({"Position", "Player"}, {})
    /\ (Done("input") /\ calls = <<>>) => held = <<>>
    /\ Done("system") => Took({"Position"}, {"LeftMover"})
    /\ Done("maintain") => held = <<>>
    /\ Done("render") => Took({}, {"Position", "Renderable"})

\* LeftWalker held Position for writing in a tick in which try_move_player
\* had held it for writing before.
C6_Witness ==
    /\ Done("system")
    /\ calls # <<>>
    /\ Len(held) = 4
    /\ held[2]["Position"].writer
    /\ held[2]["LeftMover"].readers = 1

\* C7: player_input makes exactly one try_move_player call for an arrow key,
\* Left (-1,0), Right (+1,0), Up (0,-1), Down (0,+1), and for no key or any
\* other key makes no call and leaves every store as it was.
C7_KeyToUnitDelta ==
    Done("input") =>
        /\ key = "Left" => calls = << <<-1, 0>> >>
        /\ key = "Right" => calls = << <<1, 0>> >>
        /\ key = "Up" => calls = << <<0, -1>> >>
        /\ key = "Down" => calls = << <<0, 1>> >>
        /\ key \in {"None", "Other"} =>
                /\ calls = <<>>
                /\ ecs = start
                /\ held = <<>>
                /\ joined = <<>>
        /\ calls # <<>> =>
                \A e \in ecs.player :
                    /\ ecs.position[e].x - start.position[e].x \in {0, calls[1][1]}
                    /\ ecs.position[e].y - start.position[e].y \in {0, calls[1][2]}

\* The Up key moved the Player one row up.
C7_Witness ==
    /\ Done("input")
    /\ key = "Up"
    /\ calls = << <<0, -1>> >>
    /\ \E e \in ecs.player : ecs.position[e].y = start.position[e].y - 1

QueueDestroy(e) ==
    /\ pc \in {"input", "system", "maintain"}
    /\ e \notin ecs.queue
    /\ ecs' = [ecs EXCEPT !.queue = @ \cup {e}]
    /\ UNCHANGED <<key, pc, ticks, start, screen, calls, joined, borrows, held,
                   phases>>

NextDestroy ==
    \/ Cls(MaxDestroyTicks)
    \/ PlayerInput
    \/ RunLeftWalker
    \/ Maintain
    \/ Render
    \/ \E e \in 0..MaxDestroyId : QueueDestroy(e)

SpecDestroy == Init /\ [][NextDestroy]_vars

\* rows holds each entity of both A and B once, and no other, each with its
\* Position in w.
JoinIs(rows, A, B, w) ==
    /\ \A i, j \in 1..Len(rows) : rows[i].e = rows[j].e => i = j
    /\ {rows[i].e : i \in 1..Len(rows)} = A \cap B
    /\ \A i \in 1..Len(rows) : rows[i].pos = w.position[rows[i].e]

\* C8: every join yields exactly the entities present in all the joined
\* stores, each once and with its current values: the try_move_player join
\* those with Player and Position, the LeftWalker join those with LeftMover
\* and Position, the render join those with Position and Renderable.
C8_JoinsAreIntersections ==
    [][/\ MoveStep =>
            /\ JoinIs(joined', ecs.player, DOMAIN ecs.position, ecs)
            /\ \A e \in DOMAIN ecs.position :
                    ecs'.position[e] # ecs.position[e] =>
                        e \in ecs.player \cap DOMAIN ecs.position
       /\ pc = "system" =>
            /\ JoinIs(joined', ecs.leftMover, DOMAIN ecs.position, ecs)
            /\ \A e \in DOMAIN ecs.position :
                    (ecs'.position[e] # ecs.position[e]) <=>
                        e \in ecs.leftMover \cap DOMAIN ecs.position
       /\ pc = "render" =>
            /\ JoinIs(joined', DOMAIN ecs.position, DOMAIN ecs.renderable, ecs)
            /\ Len(screen') = Len(joined')
            /\ \A i \in 1..Len(joined') :
                    LET e == joined'[i].e
                    IN  screen'[i] =
                            [x |-> ecs.position[e].x, y |-> ecs.position[e].y,
                             fg |-> ecs.renderable[e].fg,
                             bg |-> ecs.renderable[e].bg,
                             glyph |-> ecs.renderable[e].glyph]]_vars

\* A frame drew one entity and left out another that has a Position but
\* no Renderable, after try_move_player left out an entity that has a
\* Position but is no Player.
C8_Witness ==
    /\ Done("render")
    /\ Len(joined) = 1
    /\ Len(screen) = 1
    /\ calls # <<>>
    /\ (DOMAIN ecs.position) \ (DOMAIN ecs.renderable) # {}
    /\ (DOMAIN ecs.position) \ ecs.player # {}
    /\ (DOMAIN ecs.position) \cap ecs.player # {}

Present(w, e) ==
    \/ e \in w.entities
    \/ e \in DOMAIN w.position
    \/ e \in DOMAIN w.renderable
    \/ e \in w.leftMover
    \/ e \in w.player

\* The entities and components of v are those of w (Positions may differ).
SameShape(v, w) ==
    /\ v.entities = w.entities
    /\ DOMAIN v.position = DOMAIN w.position
    /\ v.renderable = w.renderable
    /\ v.leftMover = w.leftMover
    /\ v.player = w.player

MaintainStep == pc = "maintain" /\ pc' = "render"

\* C9: an entity queued for destruction during a tick keeps all its
\* components, and is visited by the joins, until maintain() runs in that
\* tick; when maintain() has returned the entity and its components are in
\* no store.
C9_DestroyedAtMaintain ==
    [][/\ ~MaintainStep => SameShape(ecs', ecs)
       /\ (pc = "system" /\ pc' = "maintain") =>
            \A e \in ecs.queue \cap ecs.leftMover \cap DOMAIN ecs.position :
                \E i \in 1..Len(joined') : joined'[i].e = e
       /\ MaintainStep =>
            /\ \A e \in ecs.queue : ~Present(ecs', e)
            /\ \A e \in ecs.entities \ ecs.queue :
                    Present(ecs', e) /\ ecs'.position[e] = ecs.position[e]
       /\ pc' \in {"render", "cls"} => ecs'.queue = {}]_vars

\* LeftMover 1, queued in the first tick before the system ran, was walked
\* by LeftWalker and then removed by maintain(), and the frame drew the ten
\* entities left.
C9_Witness ==
    /\ ticks = 1
    /\ Done("render")
    /\ 1 \in start.entities
    /\ ~Present(ecs, 1)
    /\ Len(screen) = 10

(* ------------------------------ long runs ----------------------------- *)

\* The keys of a long run: none, Left and Right, which take the Player to
\* both side columns.
LongKeys == {"None", "Left", "Right"}

\* The frame starts with one of the keys of a long run in ctx.key.
ClsLong(limit) == Cls(limit) /\ key' \in LongKeys

NextLong ==
    \/ ClsLong(MaxLongTicks)
    \/ PlayerInput
    \/ RunLeftWalker
    \/ Maintain
    \/ Render

SpecLong == Init /\ [][NextLong]_vars

\* The LeftMover main creates i-th (i in 0..9) is entity i + 1.
Mover(i) == i + 1

SameButPositions(v, w) ==
    /\ v.player = w.player
    /\ v.leftMover = w.leftMover
    /\ v.renderable = w.renderable
    /\ v.entities = w.entities
    /\ DOMAIN v.position = DOMAIN w.position

WalkStep == pc = "system" /\ pc' = "maintain"

\* C12: try_move_player changes no Position of an entity without a Player
\* and nothing in the Player, LeftMover and Renderable stores; a LeftWalker
\* run changes no y, no Position of an entity without a LeftMover (so not
\* that of a Player that is no LeftMover), and nothing in the LeftMover,
\* Player and Renderable stores.
C12_MovementFrames ==
    [][/\ MoveStep =>
            /\ SameButPositions(ecs', ecs)
            /\ \A e \in (DOMAIN ecs.position) \ ecs.player :
                    ecs'.position[e] = ecs.position[e]
       /\ WalkStep =>
            /\ SameButPositions(ecs', ecs)
            /\ \A e \in DOMAIN ecs.position :
                    ecs'.position[e].y = ecs.position[e].y
            /\ \A e \in (DOMAIN ecs.position) \ ecs.leftMover :
                    ecs'.position[e] = ecs.position[e]
            /\ \A e \in ecs.player \ ecs.leftMover :
                    e \in DOMAIN ecs.position =>
                        ecs'.position[e] = ecs.position[e]]_vars

\* In one tick try_move_player moved a Player and left alone an entity
\* that is no Player, and LeftWalker then moved a LeftMover and left alone
\* a Player that is no LeftMover.
C12_Witness ==
    /\ Done("system")
    /\ calls # <<>>
    /\ \E e \in ecs.player \ ecs.leftMover :
            /\ e \in DOMAIN ecs.position
            /\ ecs.position[e] # start.position[e]
    /\ \E e \in ecs.leftMover \ ecs.player :
            /\ e \in DOMAIN ecs.position
            /\ ecs.position[e].x # start.position[e].x
            /\ ecs.position[e].y = start.position[e].y

\* The entities and the holders of each component are those main created,
\* and nothing is queued.
MainShape(w) ==
    /\ w.entities = 0..10
    /\ DOMAIN w.position = 0..10
    /\ DOMAIN w.renderable = 0..10
    /\ w.leftMover = 1..10
    /\ w.player = {0}
    /\ w.queue = {}

\* C13: once main has built the world, the live entities and the entities
\* in each store never change, nothing is ever queued for creation or
\* destruction, every maintain() finds an empty queue and changes no store,
\* and the render join yields exactly 11 entities in every tick.
C13_StructureIsStable ==
    /\ [](MainShape(ecs) /\ (Done("render") => Len(joined) = 11 /\ Len(screen) = 11))
    /\ [][/\ MaintainStep => (ecs.queue = {} /\ ecs' = ecs)
          /\ SameButPositions(ecs', ecs)
          /\ ecs'.queue = ecs.queue]_vars

\* A second frame was drawn, with 11 entities, after maintain() ran twice
\* on a world whose Positions had changed.
C13_Witness ==
    /\ ticks = 2
    /\ Done("render")
    /\ Len(screen) = 11
    /\ MainShape(ecs)
    /\ ecs.position # start.position
    /\ start.position # MainWorld.position

InI32(v) == I32Min <= v /\ v <= I32Max

====
